---- MODULE Spec2Model ----
(***************************************************************************)
(* A model of the linear_inversion package: the LinearInversion object     *)
(* (construction, fit, predict, make_data_kernel, set_model_parameters)    *)
(* and the solver functions it dispatches to.                              *)
(*                                                                         *)
(* Numbers are exact extended rationals [n, d]: d > 0 is the finite value  *)
(* n/d in lowest terms, [1,0] / [-1,0] are +inf / -inf and [0,0] is NaN,   *)
(* so that numpy's 0/0 and x/0 have the results numpy gives them.          *)
(* An ndarray is [none, shape, data]: data is the row-major list of its    *)
(* entries; the Python value None is the record with none = TRUE.          *)
(***************************************************************************)
EXTENDS Integers, Sequences, FiniteSets, TLC

\* ------------------------------------------------------------------ numbers

Abs(x) == IF x < 0 THEN -x ELSE x

Sgn(x) == IF x < 0 THEN -1 ELSE IF x > 0 THEN 1 ELSE 0

RECURSIVE GCD(_, _)
GCD(a, b) == IF b = 0 THEN a ELSE GCD(b, a % b)

\* the number n/d, normalised (d may be 0: an infinity or NaN)
Rat(n, d) ==
    IF d = 1 THEN [n |-> n, d |-> 1]
    ELSE IF d = 0 THEN [n |-> Sgn(n), d |-> 0]
    ELSE LET g == GCD(Abs(n), Abs(d))
             s == Sgn(d)
         IN  [n |-> (s * n) \div g, d |-> (s * d) \div g]

I(n) == [n |-> n, d |-> 1]

NaN == [n |-> 0, d |-> 0]

IsNaN(a) == a.d = 0 /\ a.n = 0

IsFinite(a) == a.d > 0

RAdd(a, b) ==
    IF a.d = 0 /\ b.d = 0
    THEN (IF a = b THEN a ELSE NaN)
    ELSE Rat(a.n * b.d + b.n * a.d, a.d * b.d)

RNeg(a) == [n |-> -a.n, d |-> a.d]

RSub(a, b) == RAdd(a, RNeg(b))

RMul(a, b) == Rat(a.n * b.n, a.d * b.d)

\* a / b: 1/0 is inf, 0/0 is NaN
RDiv(a, b) == RMul(a, Rat(b.d * Sgn(b.n), Abs(b.n)))

RAbs(a) == [n |-> Abs(a.n), d |-> a.d]

\* a < b, for finite a and b
RLt(a, b) == a.n * b.d < b.n * a.d

RECURSIVE RSumFrom(_, _)
RSumFrom(s, k) == IF k > Len(s) THEN I(0) ELSE RAdd(s[k], RSumFrom(s, k + 1))

\* the sum of the entries of a sequence
RSum(s) == RSumFrom(s \o <<>>, 1)

RECURSIVE IPow(_, _)
IPow(x, k) == IF k = 0 THEN 1 ELSE x * IPow(x, k - 1)

RPow(a, k) == Rat(IPow(a.n, k), IPow(a.d, k))

\* ------------------------------------------------------------------ ndarrays

NoneArr == [none |-> TRUE, shape |-> <<>>, data |-> <<>>]

\* the entries of a sequence, computed once
Tup(s) == s \o <<>>

Vec(s) == [none |-> FALSE, shape |-> <<Len(s)>>, data |-> Tup(s)]

\* the N x M array whose (i, j) entry is f[i][j]
Mat(N, M, f) ==
    [none |-> FALSE, shape |-> <<N, M>>,
     data |-> Tup([k \in 1..(N * M) |-> f[((k - 1) \div M) + 1][((k - 1) % M) + 1]])]

IVec(s) == Vec([k \in 1..Len(s) |-> I(s[k])])

IMat(rows) ==
    Mat(Len(rows), Len(rows[1]),
        [i \in 1..Len(rows) |-> [j \in 1..Len(rows[1]) |-> I(rows[i][j])]])

ndim(A) == Len(A.shape)

At(A, i, j) == A.data[(i - 1) * A.shape[2] + j]

\* A.T of a 2-D array
Transpose(A) ==
    Mat(A.shape[2], A.shape[1],
        [i \in 1..A.shape[2] |-> [j \in 1..A.shape[1] |-> At(A, j, i)]])

\* np.dot(A, B) of a 2-D A with a 2-D or 1-D B of matching inner dimension
Dot(A, B) ==
    IF ndim(B) = 2
    THEN Mat(A.shape[1], B.shape[2],
             [i \in 1..A.shape[1] |-> [j \in 1..B.shape[2] |->
                 RSum([k \in 1..A.shape[2] |-> RMul(At(A, i, k), At(B, k, j))])]])
    ELSE Vec([i \in 1..A.shape[1] |->
                 RSum([k \in 1..A.shape[2] |-> RMul(At(A, i, k), B.data[k])])])

DotOk(A, B) == ndim(A) = 2 /\ ndim(B) \in {1, 2} /\ A.shape[2] = B.shape[1]

\* elementwise a + b, a - b of arrays of one shape; c * a, a / c with a scalar c
VAdd(a, b) == [a EXCEPT !.data = Tup([k \in 1..Len(a.data) |-> RAdd(a.data[k], b.data[k])])]

VSub(a, b) == [a EXCEPT !.data = Tup([k \in 1..Len(a.data) |-> RSub(a.data[k], b.data[k])])]

VDivElem(a, b) == [a EXCEPT !.data = Tup([k \in 1..Len(a.data) |-> RDiv(a.data[k], b.data[k])])]

VAbs(a) == [a EXCEPT !.data = Tup([k \in 1..Len(a.data) |-> RAbs(a.data[k])])]

VScale(c, a) == [a EXCEPT !.data = Tup([k \in 1..Len(a.data) |-> RMul(c, a.data[k])])]

\* X.reshape(-1, 1)
ReshapeCol(a) == [a EXCEPT !.shape = <<Len(a.data), 1>>]

\* A.squeeze(): every axis of length 1 is dropped
Squeeze(a) == [a EXCEPT !.shape = SelectSeq(a.shape, LAMBDA n : n # 1)]

\* np.vander(X, n): row i is [X_i^(n-1), ..., X_i^1, X_i^0]
Vander(X, n) ==
    Mat(Len(X.data), n,
        [i \in 1..Len(X.data) |-> [j \in 1..n |-> RPow(X.data[i], n - j)]])

\* the m x n array of zeros with ones on the main diagonal: np.eye(m, n)
Eye(m, n) ==
    Mat(m, n, [i \in 1..m |-> [j \in 1..n |-> IF i = j THEN I(1) ELSE I(0)]])

Zeros(n) == Vec([k \in 1..n |-> I(0)])

\* A with row r and column c removed
Minor(A, r, c) ==
    Mat(A.shape[1] - 1, A.shape[2] - 1,
        [i \in 1..(A.shape[1] - 1) |-> [j \in 1..(A.shape[2] - 1) |->
            At(A, IF i < r THEN i ELSE i + 1, IF j < c THEN j ELSE j + 1)]])

RECURSIVE Det(_)
Det(A) ==
    IF A.shape[1] = 0 THEN I(1)
    ELSE RSum([j \in 1..A.shape[2] |->
                  RMul(RMul(I(IF j % 2 = 1 THEN 1 ELSE -1), At(A, 1, j)),
                       Det(Minor(A, 1, j)))])

\* ------------------------------------------------------------ Python values

\* A Python scalar argument: its type, its value n/d, or its text
PyVal(t, n, d, s) == [t |-> t, n |-> n, d |-> d, s |-> s]

None == PyVal("NoneType", 0, 1, "")

True == PyVal("bool", 1, 1, "")

False == PyVal("bool", 0, 1, "")

PyInt(i) == PyVal("int", i, 1, "")

PyFloat(n, d) == PyVal("float", Rat(n, d).n, Rat(n, d).d, "")

PyStr(s) == PyVal("str", 0, 1, s)

IsNumber(v) == v.t \in {"bool", "int", "float"}

Num(v) == Rat(v.n, v.d)

\* a == b: numbers (bool included) compare by value, strings by text
PyEq(a, b) ==
    IF IsNumber(a) /\ IsNumber(b) THEN Num(a) = Num(b)
    ELSE a.t = b.t /\ a.s = b.s

\* a is True: the identity of the singleton, which no int or float has
IsTrue(a) == a.t = "bool" /\ a.n = 1

IsNone(a) == a.t = "NoneType"

\* x in [a, b]: list membership compares with ==
InList(x, lst) == \E k \in 1..Len(lst) : PyEq(x, lst[k])

\* int(x) of a number: truncation towards zero
PyIntOf(v) == PyInt(Sgn(v.n) * (Abs(v.n) \div v.d))

\* round(x) of a number: to the nearest integer, a tie to the even one
PyRound(v) ==
    LET fl == v.n \div v.d
        r2 == 2 * (v.n - fl * v.d)
    IN  PyInt(IF r2 < v.d THEN fl
            ELSE IF r2 > v.d THEN fl + 1
            ELSE IF fl % 2 = 0 THEN fl ELSE fl + 1)

\* a + 1 keeps a float a float; bool and int give an int
PyPlus1(v) ==
    IF v.t = "float" THEN PyFloat(v.n + v.d, v.d) ELSE PyInt(v.n + 1)

\* the outcome of a call: it returns a value or raises
Return(x) == [raised |-> "", value |-> x]

Raise(e) == [raised |-> e, value |-> NoneArr]

\* a[lo:hi] of a 1-D array
Slice(a, lo, hi) == Vec(SubSeq(a.data, lo + 1, hi))

RECURSIVE RMax(_)
RMax(s) ==
    IF Len(s) = 1 THEN s[1]
    ELSE LET r == RMax(Tail(s)) IN IF RLt(s[1], r) THEN r ELSE s[1]

\* ------------------------------------------------------------ least_squares.py

\* np.linalg.inv(A) of a square A: the inverse, or LinAlgError when A is singular
inv(A) ==
    LET n == A.shape[1]
        det == Det(A)
    IN  IF det = I(0) THEN Raise("LinAlgError")
        ELSE Return(Mat(n, n, [i \in 1..n |-> [j \in 1..n |->
                 RDiv(RMul(I(IF (i + j) % 2 = 0 THEN 1 ELSE -1), Det(Minor(A, j, i))),
                      det)]]))

\* least_squares with the identity added to G.T G before the inversion
least_squares_damped(G, d) ==
    LET GtG == Dot(Transpose(G), G)
        M == G.shape[2]
        inverse == inv([GtG EXCEPT !.data = VAdd(GtG, Eye(M, M)).data])
    IN  IF inverse.raised # "" THEN inverse
        ELSE Return(Dot(Dot(inverse.value, Transpose(G)), d))

\* least_squares(G, d): m = inv(G.T G) G.T d; d has one entry per row of G
least_squares(G, d) ==
    LET GtG == inv(Dot(Transpose(G), G))
    IN  IF GtG.raised # "" THEN GtG
        ELSE Return(Dot(Dot(GtG.value, Transpose(G)), d))

\* the body of least_squares_sgd's loop, run k times from m
RECURSIVE least_squares_sgd_loop(_, _, _, _, _)
least_squares_sgd_loop(G, d, eta, k, m) ==
    IF k <= 0 THEN m
    ELSE LET d_pred == Dot(G, m)
             loss == VSub(d, d_pred)
         IN  least_squares_sgd_loop(G, d, eta, k - 1,
                 VAdd(m, VScale(RDiv(RMul(eta, I(2)), I(G.shape[1])),
                                Dot(Transpose(G), loss))))

\* least_squares_sgd(G, d, eta, n_iter), m0 being the draw of np.random.normal;
\* range(n_iter) takes an int (a bool is one) and raises TypeError on a float
least_squares_sgd(G, d, eta, n_iter, m0) ==
    IF n_iter.t \notin {"int", "bool"} THEN Raise("TypeError")
    ELSE Return(least_squares_sgd_loop(G, d, Num(eta), n_iter.n, m0))

\* ------------------------------------------------------- l1_norm_inversion.py

\* one step of l1_norm_inversion_sgd's loop: the sign of the residual is
\* computed as |r| / r
l1_norm_inversion_sgd_step(G, d, eta, m) ==
    LET d_pred == Dot(G, m)
        r == VSub(d, d_pred)
    IN  VAdd(m, VScale(RDiv(eta, I(G.shape[1])),
                       Dot(Transpose(G), VDivElem(VAbs(r), r))))

RECURSIVE l1_norm_inversion_sgd_loop(_, _, _, _, _)
l1_norm_inversion_sgd_loop(G, d, eta, k, m) ==
    IF k <= 0 THEN m
    ELSE l1_norm_inversion_sgd_loop(G, d, eta, k - 1,
             l1_norm_inversion_sgd_step(G, d, eta, m))

l1_norm_inversion_sgd(G, d, eta, n_iter, m0) ==
    IF n_iter.t \notin {"int", "bool"} THEN Raise("TypeError")
    ELSE Return(l1_norm_inversion_sgd_loop(G, d, Num(eta), n_iter.n, m0))

\* the program with x2 added to, not subtracted from, the second equalities
l1_program_x2_added(G, d, sd) ==
    LET sd1 == IF sd.none THEN Vec([k \in 1..Len(d.data) |-> I(1)]) ELSE sd
        N == G.shape[1]
        M == G.shape[2]
        L == 2 * M + 3 * N
        f == Vec([k \in 1..L |->
                 IF k > 2 * M /\ k <= 2 * M + N
                 THEN RDiv(I(1), sd1.data[k - 2 * M]) ELSE I(0)])
        Aeq == Mat(2 * N, L, [r \in 1..(2 * N) |-> [c \in 1..L |->
                 LET i == IF r <= N THEN r ELSE r - N
                 IN  IF c <= M THEN At(G, i, c)
                     ELSE IF c <= 2 * M THEN RNeg(At(G, i, c - M))
                     ELSE IF c <= 2 * M + N
                          THEN (IF c - 2 * M = i
                                THEN (IF r <= N THEN I(-1) ELSE I(1)) ELSE I(0))
                     ELSE IF c <= 2 * M + 2 * N
                          THEN (IF r <= N /\ c - 2 * M - N = i THEN I(1) ELSE I(0))
                     ELSE (IF r > N /\ c - 2 * M - 2 * N = i THEN I(1) ELSE I(0))]])
        beq == Vec([r \in 1..(2 * N) |-> d.data[IF r <= N THEN r ELSE r - N]])
        A == Mat(L + 2 * M, L, [r \in 1..(L + 2 * M) |-> [c \in 1..L |->
                 IF r <= L THEN (IF r = c THEN I(-1) ELSE I(0))
                 ELSE (IF r - L = c THEN I(1) ELSE I(0))]])
        mls == least_squares(G, d)
        mupperbound == RMul(I(10), RMax(VAbs(mls.value).data))
        b == Vec([r \in 1..(L + 2 * M) |-> IF r <= L THEN I(0) ELSE mupperbound])
    IN  IF mls.raised # ""
        THEN [raised |-> mls.raised, f |-> NoneArr, A |-> NoneArr, b |-> NoneArr,
              Aeq |-> NoneArr, beq |-> NoneArr]
        ELSE [raised |-> "", f |-> f, A |-> A, b |-> b, Aeq |-> Aeq, beq |-> beq]

\* The linear program l1_norm_inversion hands to linprog: the cost f, the
\* equalities Aeq x = beq and the inequalities A x <= b over
\* x = [m1, m2, alpha, x1, x2]; least_squares' error when it raises.
l1_program(G, d, sd) ==
    LET sd1 == IF sd.none THEN Vec([k \in 1..Len(d.data) |-> I(1)]) ELSE sd
        N == G.shape[1]
        M == G.shape[2]
        L == 2 * M + 3 * N
        f == Vec([k \in 1..L |->
                 IF k > 2 * M /\ k <= 2 * M + N
                 THEN RDiv(I(1), sd1.data[k - 2 * M]) ELSE I(0)])
        Aeq == Mat(2 * N, L, [r \in 1..(2 * N) |-> [c \in 1..L |->
                 LET i == IF r <= N THEN r ELSE r - N
                 IN  IF c <= M THEN At(G, i, c)
                     ELSE IF c <= 2 * M THEN RNeg(At(G, i, c - M))
                     ELSE IF c <= 2 * M + N
                          THEN (IF c - 2 * M = i
                                THEN (IF r <= N THEN I(-1) ELSE I(1)) ELSE I(0))
                     ELSE IF c <= 2 * M + 2 * N
                          THEN (IF r <= N /\ c - 2 * M - N = i THEN I(1) ELSE I(0))
                     ELSE (IF r > N /\ c - 2 * M - 2 * N = i THEN I(-1) ELSE I(0))]])
        beq == Vec([r \in 1..(2 * N) |-> d.data[IF r <= N THEN r ELSE r - N]])
        A == Mat(L + 2 * M, L, [r \in 1..(L + 2 * M) |-> [c \in 1..L |->
                 IF r <= L THEN (IF r = c THEN I(-1) ELSE I(0))
                 ELSE (IF r - L = c THEN I(1) ELSE I(0))]])
        mls == least_squares(G, d)
        mupperbound == RMul(I(10), RMax(VAbs(mls.value).data))
        b == Vec([r \in 1..(L + 2 * M) |-> IF r <= L THEN I(0) ELSE mupperbound])
    IN  IF mls.raised # ""
        THEN [raised |-> mls.raised, f |-> NoneArr, A |-> NoneArr, b |-> NoneArr,
              Aeq |-> NoneArr, beq |-> NoneArr]
        ELSE [raised |-> "", f |-> f, A |-> A, b |-> b, Aeq |-> Aeq, beq |-> beq]

\* x satisfies Aeq x = beq and A x <= b
Feasible(x, A, b, Aeq, beq) ==
    /\ Dot(Aeq, x) = beq
    /\ LET Ax == Dot(A, x)
       IN  \A r \in 1..Len(b.data) : ~RLt(b.data[r], Ax.data[r])

\* The points linprog's answer is drawn from: for the least-squares model and
\* for m = 0, the point [m1, m2, alpha, x1, x2] with m = m1 - m2 split into its
\* positive and negative parts, alpha = |d - G m| and the slacks the two
\* equalities fix; and the zero vector.
LPPoints(G, d) ==
    LET N == G.shape[1]
        M == G.shape[2]
        mls == least_squares(G, d).value
        Point(m) ==
            LET r == VSub(d, Dot(G, m))
                a == VAbs(r)
            IN  Vec([k \in 1..M |-> IF m.data[k].n > 0 THEN m.data[k] ELSE I(0)]
                    \o [k \in 1..M |-> IF m.data[k].n < 0 THEN RNeg(m.data[k]) ELSE I(0)]
                    \o a.data \o VAdd(r, a).data \o VSub(a, r).data)
    IN  {Point(mls), Point(Zeros(M)), Zeros(2 * M + 3 * N)}

\* linprog(f, A, b, Aeq, beq): the results scipy can hand back, as [status, x].
\* status 0 (optimal) comes with a feasible x, and only when the cost is
\* bounded below (no negative cost on the unbounded alpha block); status 1
\* (iteration limit), 3 (unbounded) and 4 (numerical difficulties) come with
\* x = None or with the solver's last iterate, depending on the method and
\* the scipy version. The program is never infeasible: every m inside the box
\* extends to a feasible point. Which feasible point is optimal is not modelled.
linprog(f, A, b, Aeq, beq, pts) ==
    LET bounded == \A k \in 1..Len(f.data) : f.data[k].n >= 0
    IN  {[status |-> 0, x |-> p] :
            p \in {q \in pts : bounded /\ Feasible(q, A, b, Aeq, beq)}}
        \cup {[status |-> st, x |-> p] :
                st \in {1, 4} \cup (IF bounded THEN {} ELSE {3}),
                p \in pts \cup {NoneArr}}

\* l1_norm_inversion(G, d, sd), res being what linprog returned for
\* l1_program(G, d, sd): least_squares' error passes through, res['x'][:M] of
\* an x that is None is a TypeError, and the status of res is never read
l1_norm_inversion(G, d, sd, res) ==
    LET M == G.shape[2]
        mls == least_squares(G, d)
    IN  IF mls.raised # "" THEN Raise(mls.raised)
        ELSE IF res.x.none THEN Raise("TypeError")
        ELSE Return(VSub(Slice(res.x, 0, M), Slice(res.x, M, 2 * M)))

\* ---------------------------------------------------------- linear_inversion.py

\* LinearInversion.__init__ for numeric polynomial_order, sgd_lr and sgd_iter:
\* the assertion message it fails with ("" when it returns) and the object
NoSelf ==
    [model |-> "None", m |-> NoneArr, vander_order |-> None, use_sgd |-> None,
     sgd_lr |-> None, sgd_iter |-> None, error_type |-> None]

\* __init__ with the assertion on error_type moved to the top
LinearInversion_init_reordered(error_type, polynomial_order, use_sgd, sgd_lr, sgd_iter) ==
    LET fail(msg) == [raised |-> msg, self |-> NoSelf]
        model == IF PyEq(error_type, PyStr("l2"))
                 THEN (IF IsTrue(use_sgd) THEN "least_squares_sgd" ELSE "least_squares")
                 ELSE (IF IsTrue(use_sgd) THEN "l1_norm_inversion_sgd"
                       ELSE "l1_norm_inversion")
    IN  IF ~InList(error_type, <<PyStr("l1"), PyStr("l2")>>)
        THEN fail("error_type must be from the set ['l1', 'l2'].")
        ELSE IF ~PyEq(PyIntOf(polynomial_order), polynomial_order)
        THEN fail("polynomial_order must be an integer.")
        ELSE IF ~(Num(polynomial_order).n > 0)
        THEN fail("polynomial_order must be positive.")
        ELSE IF ~InList(use_sgd, <<True, False>>)
        THEN fail("use_sgd must be boolean.")
        ELSE IF ~(Num(sgd_lr).n > 0)
        THEN fail("sgd_lr must be positive.")
        ELSE IF ~PyEq(PyRound(sgd_iter), sgd_iter)
        THEN fail("sgd_iter must be an integer.")
        ELSE IF ~(Num(sgd_iter).n > 0)
        THEN fail("sgd_iter must be positive.")
        ELSE [raised |-> "",
              self |-> [model |-> model, m |-> NoneArr,
                        vander_order |-> PyIntOf(PyPlus1(polynomial_order)),
                        use_sgd |-> use_sgd, sgd_lr |-> sgd_lr,
                        sgd_iter |-> sgd_iter, error_type |-> error_type]]

LinearInversion_init(error_type, polynomial_order, use_sgd, sgd_lr, sgd_iter) ==
    LET fail(msg) == [raised |-> msg, self |-> NoSelf]
        model == IF PyEq(error_type, PyStr("l2"))
                 THEN (IF IsTrue(use_sgd) THEN "least_squares_sgd" ELSE "least_squares")
                 ELSE IF PyEq(error_type, PyStr("l1"))
                 THEN (IF IsTrue(use_sgd) THEN "l1_norm_inversion_sgd"
                       ELSE "l1_norm_inversion")
                 ELSE "None"
    IN  IF ~PyEq(PyIntOf(polynomial_order), polynomial_order)
        THEN fail("polynomial_order must be an integer.")
        ELSE IF ~(Num(polynomial_order).n > 0)
        THEN fail("polynomial_order must be positive.")
        ELSE IF ~InList(use_sgd, <<True, False>>)
        THEN fail("use_sgd must be boolean.")
        ELSE IF ~(Num(sgd_lr).n > 0)
        THEN fail("sgd_lr must be positive.")
        ELSE IF ~PyEq(PyRound(sgd_iter), sgd_iter)
        THEN fail("sgd_iter must be an integer.")
        ELSE IF ~(Num(sgd_iter).n > 0)
        THEN fail("sgd_iter must be positive.")
        ELSE IF ~InList(error_type, <<PyStr("l1"), PyStr("l2")>>)
        THEN fail("error_type must be from the set ['l1', 'l2'].")
        ELSE [raised |-> "",
              self |-> [model |-> model, m |-> NoneArr,
                        vander_order |-> PyIntOf(PyPlus1(polynomial_order)),
                        use_sgd |-> use_sgd, sgd_lr |-> sgd_lr,
                        sgd_iter |-> sgd_iter, error_type |-> error_type]]

\* make_data_kernel taking the order itself for the number of columns
make_data_kernel_without_constant(self, X, polynomial_order) ==
    LET vander_order == IF IsNone(polynomial_order) THEN self.vander_order
                        ELSE polynomial_order
    IN  IF ndim(X) = 1
        THEN (IF RLt(I(1), Num(vander_order))
              THEN (IF vander_order.t = "float" THEN Raise("TypeError")
                    ELSE Return(Vander(X, vander_order.n)))
              ELSE Return(ReshapeCol(X)))
        ELSE Return(X)

\* LinearInversion.make_data_kernel(X, polynomial_order)
make_data_kernel(self, X, polynomial_order) ==
    LET vander_order == IF IsNone(polynomial_order) THEN self.vander_order
                        ELSE PyPlus1(polynomial_order)
    IN  IF ndim(X) = 1
        THEN (IF RLt(I(1), Num(vander_order))
              THEN (IF vander_order.t = "float" THEN Raise("TypeError")
                    ELSE Return(Vander(X, vander_order.n)))
              ELSE Return(ReshapeCol(X)))
        ELSE Return(X)

\* what fit invoked: the solver and the arguments it was given (nargs of them)
NoCall ==
    [fn |-> "", nargs |-> 0, G |-> NoneArr, d |-> NoneArr, sd |-> NoneArr,
     eta |-> None, n_iter |-> None]

NoRes == [status |-> -1, x |-> NoneArr]

\* self.model(...): the call of the solver bound at construction
CallSolver(c, m0, res) ==
    IF c.fn = "least_squares" THEN least_squares(c.G, c.d)
    ELSE IF c.fn = "l1_norm_inversion" THEN l1_norm_inversion(c.G, c.d, c.sd, res)
    ELSE IF c.fn = "least_squares_sgd"
    THEN least_squares_sgd(c.G, c.d, c.eta, c.n_iter, m0)
    ELSE l1_norm_inversion_sgd(c.G, c.d, c.eta, c.n_iter, m0)

\* fit's call with the overrides of sgd_lr and sgd_iter left unused
fit_call_configured(self, G, y, sd, sgd_lr, sgd_iter) ==
    IF IsTrue(self.use_sgd)
    THEN [NoCall EXCEPT !.fn = self.model, !.nargs = 4, !.G = G, !.d = y,
              !.eta = self.sgd_lr, !.n_iter = self.sgd_iter]
    ELSE IF PyEq(self.error_type, PyStr("l2"))
    THEN [NoCall EXCEPT !.fn = self.model, !.nargs = 2, !.G = G, !.d = y]
    ELSE [NoCall EXCEPT !.fn = self.model, !.nargs = 3, !.G = G, !.d = y, !.sd = sd]

\* The call fit makes once the kernel G is built
fit_call(self, G, y, sd, sgd_lr, sgd_iter) ==
    IF IsTrue(self.use_sgd)
    THEN [NoCall EXCEPT !.fn = self.model, !.nargs = 4, !.G = G, !.d = y,
              !.eta = IF IsNone(sgd_lr) THEN self.sgd_lr ELSE sgd_lr,
              !.n_iter = IF IsNone(sgd_iter) THEN self.sgd_iter ELSE sgd_iter]
    ELSE IF PyEq(self.error_type, PyStr("l2"))
    THEN [NoCall EXCEPT !.fn = self.model, !.nargs = 2, !.G = G, !.d = y]
    ELSE [NoCall EXCEPT !.fn = self.model, !.nargs = 3, !.G = G, !.d = y, !.sd = sd]

\* fit without the line that clears self.m before the solver is invoked
fit_keeping(self, X, y, sd, polynomial_order, sgd_lr, sgd_iter, m0, res) ==
    LET G == make_data_kernel(self, X, polynomial_order)
        call == fit_call(self, G.value, y, sd, sgd_lr, sgd_iter)
        r == CallSolver(call, m0, res)
    IN  IF self.model = "None"
        THEN [self |-> self, out |-> Raise("AssertionError"), call |-> NoCall]
        ELSE IF G.raised # ""
        THEN [self |-> self, out |-> G, call |-> NoCall]
        ELSE IF r.raised # ""
        THEN [self |-> self, out |-> r, call |-> call]
        ELSE [self |-> [self EXCEPT !.m = r.value], out |-> Return(r.value),
              call |-> call]

\* fit assigning the overrides to the object instead of to its locals
fit_storing_overrides(self, X, y, sd, polynomial_order, sgd_lr, sgd_iter, m0, res) ==
    LET G == make_data_kernel(self, X, polynomial_order)
        stored == [self EXCEPT
                      !.m = NoneArr,
                      !.sgd_lr = IF IsNone(sgd_lr) THEN @ ELSE sgd_lr,
                      !.sgd_iter = IF IsNone(sgd_iter) THEN @ ELSE sgd_iter]
        call == fit_call(self, G.value, y, sd, sgd_lr, sgd_iter)
        r == CallSolver(call, m0, res)
    IN  IF self.model = "None"
        THEN [self |-> self, out |-> Raise("AssertionError"), call |-> NoCall]
        ELSE IF G.raised # ""
        THEN [self |-> self, out |-> G, call |-> NoCall]
        ELSE IF r.raised # ""
        THEN [self |-> stored, out |-> r, call |-> call]
        ELSE [self |-> [stored EXCEPT !.m = r.value], out |-> Return(r.value),
              call |-> call]

\* LinearInversion.fit(X, y, sd, polynomial_order, sgd_lr, sgd_iter); m0 and
\* res are what np.random.normal and linprog hand the solver
fit(self, X, y, sd, polynomial_order, sgd_lr, sgd_iter, m0, res) ==
    LET G == make_data_kernel(self, X, polynomial_order)
        cleared == [self EXCEPT !.m = NoneArr]
        call == fit_call(self, G.value, y, sd, sgd_lr, sgd_iter)
        r == CallSolver(call, m0, res)
    IN  IF self.model = "None"
        THEN [self |-> self, out |-> Raise("AssertionError"), call |-> NoCall]
        ELSE IF G.raised # ""
        THEN [self |-> self, out |-> G, call |-> NoCall]
        ELSE IF r.raised # ""
        THEN [self |-> cleared, out |-> r, call |-> call]
        ELSE [self |-> [cleared EXCEPT !.m = r.value], out |-> Return(r.value),
              call |-> call]

\* predict without its assertion: None has no reshape
predict_unasserted(self, X, polynomial_order) ==
    LET G == make_data_kernel(self, X, polynomial_order)
        col == ReshapeCol(self.m)
    IN  IF G.raised # "" THEN [self |-> self, out |-> G]
        ELSE IF self.m.none THEN [self |-> self, out |-> Raise("AttributeError")]
        ELSE IF ~DotOk(G.value, col) THEN [self |-> self, out |-> Raise("ValueError")]
        ELSE [self |-> self, out |-> Return(Squeeze(Dot(G.value, col)))]

\* LinearInversion.predict(X, polynomial_order)
predict(self, X, polynomial_order) ==
    LET G == make_data_kernel(self, X, polynomial_order)
        col == ReshapeCol(self.m)
    IN  IF self.m.none THEN [self |-> self, out |-> Raise("AssertionError")]
        ELSE IF G.raised # "" THEN [self |-> self, out |-> G]
        ELSE IF ~DotOk(G.value, col) THEN [self |-> self, out |-> Raise("ValueError")]
        ELSE [self |-> self, out |-> Return(Squeeze(Dot(G.value, col)))]

\* set_model_parameters storing m only while the model holds no parameters
set_model_parameters_if_unfit(self, m) ==
    [self |-> IF self.m.none THEN [self EXCEPT !.m = m] ELSE self,
     out |-> Return(NoneArr)]

\* LinearInversion.set_model_parameters(m)
set_model_parameters(self, m) ==
    [self |-> [self EXCEPT !.m = m], out |-> Return(NoneArr)]

\* ------------------------------------------------------------------- inputs

\* the number of observations of a data set, and the largest polynomial order
NObs == 3

MaxOrder == 2

\* constructor arguments: the values of the configuration tests and valid ones
ErrorTypes == {PyStr("l1"), PyStr("l2"), PyStr("l0")}

PolynomialOrders == {PyFloat(11, 10), PyInt(-1)} \cup {PyInt(k) : k \in 1..MaxOrder}

UseSgds == {True, False, PyInt(1), PyInt(12345)}

SgdLrs == {PyFloat(-1, 100), PyFloat(1, 2)}

SgdIters == {PyFloat(1001, 10), PyInt(-100), PyInt(1)}

\* the observation points -1, 0, 1, ... and the values 1, 3, 6, ... observed there
Xs == [k \in 1..NObs |-> k - 2]

Ys == [k \in 1..NObs |-> (k * (k + 1)) \div 2 + k - 1]

\* data sets (X, y): a 1-D X, a 1-D X whose points coincide (a singular
\* kernel), and a 2-D X (a kernel the caller built)
DataSets ==
    { [X |-> IVec(Xs), y |-> IVec(Ys)],
      [X |-> IVec([k \in 1..NObs |-> 1]), y |-> IVec(Ys)],
      [X |-> IMat([k \in 1..NObs |-> <<k - 2, 1>>]), y |-> IVec(Ys)] }

\* the X handed to predict: those of the data sets and a single point
PredictXs == {ds.X : ds \in DataSets} \cup {IVec(<<2>>)}

\* sd: absent, or one value for every observation (a negative one makes the
\* linear program unbounded)
Sds(N) == {NoneArr, Vec([k \in 1..N |-> I(-1)])}

OrderOverrides == {None, PyInt(0)}

LrOverrides == {None, PyFloat(1, 4)}

IterOverrides == {None, PyInt(2)}

\* parameter vectors handed to set_model_parameters (None is accepted too)
Parameters == {NoneArr, IVec(<<2, 1>>), IVec(<<1, 0, -1>>), Vec(<<Rat(1, 2)>>)}

\* draws of np.random.normal(size = n)
normal(n) == {Vec([k \in 1..n |-> I(c * k)]) : c \in {0, 1}}

\* --------------------------------------------------------------- the object

\* pc: "new" before construction, "failed" when the constructor raised, "idle"
\* between calls, "returned" when a call has just returned or raised.
\* ctor: the constructor's arguments. self: the object. ev: the call that has
\* just ended, with its arguments, what the libraries handed it (m0, res),
\* its outcome, and whether the object held parameters when it began. injected: the argument of
\* set_model_parameters, as long as no fit has touched the parameters since.
VARIABLES pc, ctor, self, ev, injected

vars == <<pc, ctor, self, ev, injected>>

NoCtor ==
    [error_type |-> None, polynomial_order |-> None, use_sgd |-> None,
     sgd_lr |-> None, sgd_iter |-> None]

NoEv ==
    [op |-> "", X |-> NoneArr, y |-> NoneArr, sd |-> NoneArr, m |-> NoneArr,
     polynomial_order |-> None, sgd_lr |-> None, sgd_iter |-> None,
     call |-> NoCall, m0 |-> NoneArr, res |-> NoRes, out |-> Return(NoneArr),
     had_m |-> FALSE]

NotInjected == [some |-> FALSE, m |-> NoneArr]

Init ==
    /\ pc = "new"
    /\ ctor = NoCtor
    /\ self = NoSelf
    /\ ev = NoEv
    /\ injected = NotInjected

\* model = LinearInversion(error_type, polynomial_order, use_sgd, sgd_lr, sgd_iter)
Construct ==
    /\ pc = "new"
    /\ \E error_type \in ErrorTypes, polynomial_order \in PolynomialOrders,
          use_sgd \in UseSgds, sgd_lr \in SgdLrs, sgd_iter \in SgdIters :
          LET r == LinearInversion_init(error_type, polynomial_order, use_sgd,
                                        sgd_lr, sgd_iter)
          IN  /\ ctor' = [error_type |-> error_type,
                          polynomial_order |-> polynomial_order,
                          use_sgd |-> use_sgd, sgd_lr |-> sgd_lr,
                          sgd_iter |-> sgd_iter]
              /\ pc' = IF r.raised = "" THEN "returned" ELSE "failed"
              /\ self' = r.self
              /\ ev' = [NoEv EXCEPT !.op = "__init__", !.out = Raise(r.raised)]
              /\ UNCHANGED injected

\* model.fit(X, y, sd, polynomial_order, sgd_lr, sgd_iter)
Fit ==
    /\ pc = "idle"
    /\ \E ds \in DataSets, polynomial_order \in OrderOverrides,
          sgd_lr \in LrOverrides, sgd_iter \in IterOverrides :
       \E sd \in Sds(Len(ds.y.data)),
          G \in {make_data_kernel(self, ds.X, polynomial_order)} :
       \E lp \in {IF G.raised = "" /\ self.model = "l1_norm_inversion"
                     /\ ~IsTrue(self.use_sgd)
                  THEN l1_program(G.value, ds.y, sd)
                  ELSE [raised |-> "no linprog call"]} :
       \E m0 \in IF G.raised = "" /\ IsTrue(self.use_sgd)
                 THEN normal(G.value.shape[2]) ELSE {NoneArr},
          res \in IF lp.raised = ""
                  THEN linprog(lp.f, lp.A, lp.b, lp.Aeq, lp.beq,
                               LPPoints(G.value, ds.y))
                  ELSE {NoRes} :
       \E r \in {fit(self, ds.X, ds.y, sd, polynomial_order, sgd_lr, sgd_iter,
                     m0, res)} :
          /\ self' = r.self
          /\ ev' = [NoEv EXCEPT !.op = "fit", !.X = ds.X, !.y = ds.y, !.sd = sd,
                       !.polynomial_order = polynomial_order,
                       !.sgd_lr = sgd_lr, !.sgd_iter = sgd_iter,
                       !.call = r.call, !.m0 = m0, !.res = res, !.out = r.out,
                       !.had_m = ~self.m.none]
          /\ injected' = IF r.call = NoCall THEN injected ELSE NotInjected
          /\ pc' = "returned"
          /\ UNCHANGED ctor

\* model.predict(X, polynomial_order)
Predict ==
    /\ pc = "idle"
    /\ \E X \in PredictXs, polynomial_order \in OrderOverrides :
          LET r == predict(self, X, polynomial_order)
          IN  /\ self' = r.self
              /\ ev' = [NoEv EXCEPT !.op = "predict", !.X = X,
                           !.polynomial_order = polynomial_order, !.out = r.out,
                           !.had_m = ~self.m.none]
              /\ pc' = "returned"
              /\ UNCHANGED <<ctor, injected>>

\* model.set_model_parameters(m)
SetModelParameters ==
    /\ pc = "idle"
    /\ \E m \in Parameters :
          LET r == set_model_parameters(self, m)
          IN  /\ self' = r.self
              /\ ev' = [NoEv EXCEPT !.op = "set_model_parameters", !.m = m,
                           !.out = r.out, !.had_m = ~self.m.none]
              /\ injected' = [some |-> TRUE, m |-> m]
              /\ pc' = "returned"
              /\ UNCHANGED ctor

\* the caller takes the outcome of the call; the object waits for the next one
Resume ==
    /\ pc = "returned"
    /\ pc' = "idle"
    /\ ev' = NoEv
    /\ UNCHANGED <<ctor, self, injected>>

Next == Construct \/ Fit \/ Predict \/ SetModelParameters \/ Resume

Spec == Init /\ [][Next]_vars

\* ------------------------------------------- the solvers and the kernel builder

MaxEntry == 1

\* the N x M arrays and the length-N vectors with entries in lo..hi
Matrices(N, M, lo, hi) ==
    {[none |-> FALSE, shape |-> <<N, M>>, data |-> [k \in 1..(N * M) |-> I(f[k])]] :
        f \in [1..(N * M) -> lo..hi]}

Vectors(N, lo, hi) == {IVec(f) : f \in [1..N -> lo..hi]}

\* least_squares(G, d) applied to the kernels G of NObs observations with one
\* and two columns and entries in 0..MaxEntry, and to the polynomial kernels
\* of the data sets
Kernels ==
    Matrices(NObs, 1, 0, MaxEntry) \cup Matrices(NObs, 2, 0, MaxEntry)
    \cup {Vander(ds.X, M) : ds \in {e \in DataSets : ndim(e.X) = 1},
                            M \in 2..(MaxOrder + 1)}

InitLeastSquares ==
    /\ pc = "least_squares"
    /\ ctor = NoCtor
    /\ self = NoSelf
    /\ injected = NotInjected
    /\ \E G \in Kernels, d \in {IVec(Ys), IVec([k \in 1..NObs |-> 1 - k])} :
          ev = [NoEv EXCEPT !.call = [NoCall EXCEPT !.fn = "least_squares",
                                         !.nargs = 2, !.G = G, !.d = d]]

LeastSquares ==
    /\ pc = "least_squares"
    /\ pc' = "done"
    /\ ev' = [ev EXCEPT !.op = "least_squares",
                        !.out = least_squares(ev.call.G, ev.call.d)]
    /\ UNCHANGED <<ctor, self, injected>>

SpecLeastSquares == InitLeastSquares /\ [][LeastSquares]_vars

\* make_data_kernel(X, polynomial_order) applied on a model of every valid
\* order to 1-D X of up to NObs points, to 2-D X, with and without an override
KernelXs ==
    UNION {Vectors(N, -1, MaxEntry) : N \in 1..NObs}
    \cup {ds.X : ds \in DataSets}
    \cup {IMat(<<<<2>>, <<0>>>>)}

KernelOverrides == {None} \cup {PyInt(k) : k \in -1..MaxOrder}

InitKernel ==
    /\ pc = "make_data_kernel"
    /\ injected = NotInjected
    /\ \E order \in 1..MaxOrder :
          /\ ctor = [NoCtor EXCEPT !.error_type = PyStr("l2"),
                        !.polynomial_order = PyInt(order), !.use_sgd = False,
                        !.sgd_lr = PyFloat(1, 2), !.sgd_iter = PyInt(1)]
          /\ self = LinearInversion_init(PyStr("l2"), PyInt(order), False,
                                         PyFloat(1, 2), PyInt(1)).self
    /\ \E X \in KernelXs, polynomial_order \in KernelOverrides :
          ev = [NoEv EXCEPT !.X = X, !.polynomial_order = polynomial_order]

MakeDataKernel ==
    /\ pc = "make_data_kernel"
    /\ pc' = "done"
    /\ ev' = [ev EXCEPT !.op = "make_data_kernel",
                        !.out = make_data_kernel(self, ev.X, ev.polynomial_order)]
    /\ UNCHANGED <<ctor, self, injected>>

SpecKernel == InitKernel /\ [][MakeDataKernel]_vars

\* l1_program(G, d, sd), sd left to its default, applied to the kernels of
\* the 1-D data sets with one and two columns, and, once the program is built, points x = [m1, m2, alpha,
\* x1, x2] set against it: every m1, m2 with entries 0..1, every alpha_i in
\* 0..MaxPoint and x1_i, x2_i in -1..MaxPoint for one observation i, the
\* entries of the other observations all 0 or all 1
MaxPoint == 2

ProgramKernels ==
    {ReshapeCol(ds.X) : ds \in {e \in DataSets : ndim(e.X) = 1}}
    \cup {Vander(ds.X, 2) : ds \in {e \in DataSets : ndim(e.X) = 1}}

ProgramPoints(N, M) ==
    {Vec([k \in 1..(2 * M + 3 * N) |->
            I(IF k <= M THEN m1[k]
              ELSE IF k <= 2 * M THEN m2[k - M]
              ELSE IF k <= 2 * M + N THEN (IF k - 2 * M = i THEN a ELSE c)
              ELSE IF k <= 2 * M + 2 * N
                   THEN (IF k - 2 * M - N = i THEN s1 ELSE c)
              ELSE (IF k - 2 * M - 2 * N = i THEN s2 ELSE c))]) :
        m1 \in [1..M -> 0..1], m2 \in [1..M -> 0..1], i \in 1..N,
        a \in 0..MaxPoint, s1 \in -1..MaxPoint, s2 \in -1..MaxPoint,
        c \in 0..1}

InitProgram ==
    /\ pc = "l1_program"
    /\ ctor = NoCtor
    /\ self = NoSelf
    /\ injected = NotInjected
    /\ \E G \in ProgramKernels, d \in {IVec(Ys), IVec([k \in 1..NObs |-> 2 - k])} :
          ev = [NoEv EXCEPT !.call = [NoCall EXCEPT !.fn = "l1_norm_inversion",
                                         !.nargs = 3, !.G = G, !.d = d]]

\* the program is built; ev.out holds it
BuildProgram ==
    /\ pc = "l1_program"
    /\ pc' = "program"
    /\ ev' = [ev EXCEPT !.op = "l1_program",
                        !.out = l1_program(ev.call.G, ev.call.d, ev.call.sd)]
    /\ UNCHANGED <<ctor, self, injected>>

\* a point is set against the program; ev.res.x holds it
TryPoint ==
    /\ pc = "program"
    /\ ev.out.raised = ""
    /\ pc' = "point"
    /\ \E x \in ProgramPoints(ev.call.G.shape[1], ev.call.G.shape[2]) :
          ev' = [ev EXCEPT !.res = [status |-> -1, x |-> x]]
    /\ UNCHANGED <<ctor, self, injected>>

SpecProgram == InitProgram /\ [][BuildProgram \/ TryPoint]_vars

\* one step of l1_norm_inversion_sgd's loop applied to the kernels of the 1-D
\* data sets with one and two columns, two learning rates, and every current
\* m with entries in -1..1 (m starts as a draw of np.random.normal)
InitSgdStep ==
    /\ pc = "l1_norm_inversion_sgd"
    /\ ctor = NoCtor
    /\ self = NoSelf
    /\ injected = NotInjected
    /\ \E G \in ProgramKernels, d \in {IVec(Ys), IVec([k \in 1..NObs |-> 2 - k])},
          eta \in {PyFloat(1, 2), PyFloat(1, 4)} :
       \E m \in Vectors(G.shape[2], -1, 1) :
          ev = [NoEv EXCEPT !.m = m,
                   !.call = [NoCall EXCEPT !.fn = "l1_norm_inversion_sgd",
                                !.nargs = 4, !.G = G, !.d = d, !.eta = eta,
                                !.n_iter = PyInt(1)]]

SgdStep ==
    /\ pc = "l1_norm_inversion_sgd"
    /\ pc' = "stepped"
    /\ ev' = [ev EXCEPT !.op = "l1_norm_inversion_sgd",
                        !.out = Return(l1_norm_inversion_sgd_step(
                                    ev.call.G, ev.call.d, Num(ev.call.eta), ev.m))]
    /\ UNCHANGED <<ctor, self, injected>>

SpecSgdStep == InitSgdStep /\ [][SgdStep]_vars

\* ------------------------------------------------------------------- claims

Constructed == pc \in {"idle", "returned"}

\* C1: a fit of a model constructed with a boolean use_sgd invokes, on the
\* kernel G it built, exactly the solver of the table -- (l2, False) ->
\* least_squares(G, y); (l1, False) -> l1_norm_inversion(G, y, sd);
\* (l2, True) -> least_squares_sgd(G, y, lr, iter); (l1, True) ->
\* l1_norm_inversion_sgd(G, y, lr, iter) -- with lr and iter fit's argument
\* when given and the constructor's otherwise; what the solver returns is
\* stored as the parameters and returned, what it raises is raised.
C1_Expected ==
    LET G == make_data_kernel(self, ev.X, ev.polynomial_order).value
        lr == IF ev.sgd_lr = None THEN ctor.sgd_lr ELSE ev.sgd_lr
        iter == IF ev.sgd_iter = None THEN ctor.sgd_iter ELSE ev.sgd_iter
        l2 == ctor.error_type = PyStr("l2")
    IN  IF ctor.use_sgd = False
        THEN (IF l2
              THEN [fn |-> "least_squares", nargs |-> 2, G |-> G, d |-> ev.y,
                    sd |-> NoneArr, eta |-> None, n_iter |-> None]
              ELSE [fn |-> "l1_norm_inversion", nargs |-> 3, G |-> G, d |-> ev.y,
                    sd |-> ev.sd, eta |-> None, n_iter |-> None])
        ELSE [fn |-> IF l2 THEN "least_squares_sgd" ELSE "l1_norm_inversion_sgd",
              nargs |-> 4, G |-> G, d |-> ev.y, sd |-> NoneArr,
              eta |-> lr, n_iter |-> iter]

C1_FitDispatch ==
    (pc = "returned" /\ ev.op = "fit" /\ ctor.use_sgd \in {True, False}) =>
        LET r == CallSolver(C1_Expected, ev.m0, ev.res)
        IN  /\ ev.call = C1_Expected
            /\ ev.out = r
            /\ r.raised = "" => self.m = r.value

C1_FitDispatch_Witness ==
    /\ pc = "returned" /\ ev.op = "fit"
    /\ ctor.use_sgd = True /\ ctor.error_type = PyStr("l1")
    /\ ev.sgd_lr # None /\ ev.sgd_iter = None
    /\ ev.call.fn = "l1_norm_inversion_sgd"
    /\ ev.call.eta = ev.sgd_lr /\ ev.call.n_iter = ctor.sgd_iter
    /\ ev.out.raised = "" /\ self.m = ev.out.value

\* C2 (as amended): parameters that are present are still present after every
\* predict, every set_model_parameters given a vector and every fit whose
\* solver returns; they are gone exactly after a fit whose solver raised (fit
\* clears them before it invokes the solver) and after set_model_parameters(None).
C2_UnfitOnlyByFailedFit ==
    [][(pc = "idle" /\ ~self.m.none) =>
        (self'.m.none <=>
            \/ ev'.op = "fit" /\ ev'.call # NoCall /\ ev'.out.raised # ""
            \/ ev'.op = "set_model_parameters" /\ ev'.m.none)]_vars

C2_UnfitOnlyByFailedFit_Witness ==
    /\ pc = "returned" /\ ev.op = "fit" /\ ev.had_m
    /\ ev.out.raised = "" /\ self.m = ev.out.value /\ ~self.m.none

\* C2 (as claimed): once the parameters are present they stay present over
\* every fit, whether the solver returns or raises, every predict and every
\* set_model_parameters that is given a vector.
C2_NoFitToUnfit ==
    [][(pc = "idle" /\ ~self.m.none
        /\ ~(ev'.op = "set_model_parameters" /\ ev'.m.none))
       => ~self'.m.none]_vars

\* C3: predict on a model that holds no parameters fails with the assertion
\* error and returns nothing; it returns a prediction only when parameters
\* are held.
C3_PredictNeedsParameters ==
    [][(pc = "idle" /\ ev'.op = "predict") =>
        /\ self.m.none => ev'.out = Raise("AssertionError")
        /\ ev'.out.raised = "" => ~self.m.none]_vars

C3_PredictNeedsParameters_Witness ==
    /\ pc = "returned" /\ ev.op = "predict" /\ ~ev.had_m
    /\ self.m.none /\ ev.out = Raise("AssertionError")

\* C4: the constructor fails with the message of the first violated check, in
\* the order polynomial_order integer, polynomial_order positive, use_sgd equal
\* to True or False, sgd_lr positive, sgd_iter integer, sgd_iter positive,
\* error_type in {l1, l2}; it raises nothing when no check is violated.
C4_Violated ==
    << Num(ctor.polynomial_order).d # 1,
       Num(ctor.polynomial_order).n <= 0,
       Num(ctor.use_sgd) \notin {I(0), I(1)},
       Num(ctor.sgd_lr).n <= 0,
       Num(ctor.sgd_iter).d # 1,
       Num(ctor.sgd_iter).n <= 0,
       ctor.error_type \notin {PyStr("l1"), PyStr("l2")} >>

C4_Messages ==
    << "polynomial_order must be an integer.",
       "polynomial_order must be positive.",
       "use_sgd must be boolean.",
       "sgd_lr must be positive.",
       "sgd_iter must be an integer.",
       "sgd_iter must be positive.",
       "error_type must be from the set ['l1', 'l2']." >>

C5_UseSgdBoolean ==
    (pc # "new" /\ ctor.use_sgd \notin {True, False}) => pc = "failed"

C9_RoundTrip ==
    (pc = "returned" /\ ev.op = "predict" /\ ev.polynomial_order = None
     /\ injected.some /\ ~injected.m.none)
        => LET G == make_data_kernel(self, ev.X, ctor.polynomial_order).value
               N == G.shape[1]
           IN  IF G.shape[2] = Len(injected.m.data)
               THEN /\ ev.out.raised = ""
                    /\ ev.out.value.data = Dot(G, injected.m).data
                    /\ ev.out.value.shape = IF N = 1 THEN <<>> ELSE <<N>>
               ELSE ev.out = Raise("ValueError")

C9_RoundTrip_Witness ==
    /\ pc = "returned" /\ ev.op = "predict" /\ ev.polynomial_order = None
    /\ injected.some /\ injected.m = IVec(<<1, 0, -1>>)
    /\ ndim(ev.X) = 1 /\ ev.X.shape[1] > 1
    /\ ev.out.raised = "" /\ Len(ev.out.value.data) = ev.X.shape[1]

\* C10: no fit, predict or set_model_parameters, with or without overrides,
\* changes the object's error_type, kernel order, use_sgd, sgd_lr, sgd_iter or
\* bound solver; the parameters change only in fit and set_model_parameters.
C10_ConfigImmutable ==
    [][Constructed =>
        /\ self'.error_type = self.error_type
        /\ self'.vander_order = self.vander_order
        /\ self'.use_sgd = self.use_sgd
        /\ self'.sgd_lr = self.sgd_lr
        /\ self'.sgd_iter = self.sgd_iter
        /\ self'.model = self.model
        /\ self'.m # self.m => ev'.op \in {"fit", "set_model_parameters"}]_vars

C10_ConfigImmutable_Witness ==
    /\ pc = "returned" /\ ev.op = "fit" /\ ev.out.raised = ""
    /\ ev.polynomial_order # None /\ ev.sgd_lr # None /\ ev.sgd_iter # None
    /\ self.use_sgd = True
    /\ self.sgd_lr = ctor.sgd_lr /\ self.sgd_lr # ev.sgd_lr
    /\ self.sgd_iter = ctor.sgd_iter /\ self.sgd_iter # ev.sgd_iter
    /\ self.vander_order = PyInt(ctor.polynomial_order.n + 1)

\* C7: least_squares(G, d) returns the m with (G^T G) m = G^T d when G^T G is
\* invertible; when G^T G is singular it raises the singular-matrix error and
\* returns nothing.
C7_NormalEquations ==
    (pc = "done" /\ ev.op = "least_squares") =>
        LET G == ev.call.G
            GtG == Dot(Transpose(G), G)
        IN  IF Det(GtG) # I(0)
            THEN /\ ev.out.raised = ""
                 /\ ev.out.value.shape = <<G.shape[2]>>
                 /\ Dot(GtG, ev.out.value) = Dot(Transpose(G), ev.call.d)
            ELSE ev.out = Raise("LinAlgError")

C7_NormalEquations_Witness ==
    /\ pc = "done" /\ ev.op = "least_squares"
    /\ ev.call.G.shape = <<NObs, 2>>
    /\ ev.out.raised = ""
    /\ \E k \in 1..2 : ev.out.value.data[k].d # 1

C7_Singular_Witness ==
    /\ pc = "done" /\ ev.op = "least_squares"
    /\ ev.call.G.shape = <<NObs, 2>>
    /\ \A i \in 1..NObs : At(ev.call.G, i, 1) = At(ev.call.G, i, 2)
    /\ ev.out = Raise("LinAlgError")

\* the order a call of the kernel builder works with: the override when one
\* is given, the constructor's order otherwise
C8_Order == IF ev.polynomial_order = None THEN ctor.polynomial_order.n
            ELSE ev.polynomial_order.n

\* the array is N x M and its row i is [x^(M-1), ..., x^1, x^0] for x = X_i
C8_IsVandermonde(G, X, M) ==
    /\ G.shape = <<Len(X.data), M>>
    /\ \A i \in 1..Len(X.data) :
          /\ At(G, i, M) = I(1)
          /\ \A j \in 1..(M - 1) : At(G, i, j) = RMul(X.data[i], At(G, i, j + 1))

\* C8 (as amended): for a 1-D X of length N the kernel builder returns, for an
\* order p >= 1, the N x (p+1) matrix with rows [X_i^p, ..., X_i, 1], and for
\* an order p <= 0 (an override only) X itself as an N x 1 column; a 2-D X is
\* returned unchanged.
C8_KernelOfOrder ==
    (pc = "done" /\ ev.op = "make_data_kernel") =>
        /\ ev.out.raised = ""
        /\ IF ndim(ev.X) # 1 THEN ev.out.value = ev.X
           ELSE IF C8_Order >= 1
           THEN C8_IsVandermonde(ev.out.value, ev.X, C8_Order + 1)
           ELSE /\ ev.out.value.shape = <<Len(ev.X.data), 1>>
                /\ ev.out.value.data = ev.X.data

C8_KernelOfOrder_Witness ==
    /\ pc = "done" /\ ev.op = "make_data_kernel"
    /\ ev.polynomial_order = PyInt(MaxOrder) /\ ctor.polynomial_order = PyInt(1)
    /\ ev.X = IVec(Xs)
    /\ ev.out.value.shape = <<NObs, MaxOrder + 1>>
    /\ At(ev.out.value, 1, 1) = RPow(I(-1), MaxOrder)

\* C8 (as claimed): for a 1-D X and every order p >= 0 the builder returns
\* the N x (p+1) matrix with rows [X_i^p, ..., X_i^0]; a 2-D X is returned
\* unchanged.
C8_VandermondeOfOrder ==
    (pc = "done" /\ ev.op = "make_data_kernel" /\ C8_Order >= 0) =>
        /\ ev.out.raised = ""
        /\ IF ndim(ev.X) # 1 THEN ev.out.value = ev.X
           ELSE C8_IsVandermonde(ev.out.value, ev.X, C8_Order + 1)

\* At the point x = ev.res.x of the program ev.out: the observations i whose
\* two equality rows hold with x1_i >= 0 and x2_i >= 0, as pairs
\* <<i, alpha_i, d_i - (G (m1 - m2))_i>>
C11_Satisfied ==
    LET N == ev.call.G.shape[1]
        M == ev.call.G.shape[2]
        x == ev.res.x
        lhs == Dot(ev.out.Aeq, x)
        Gm == Dot(ev.call.G, VSub(Slice(x, 0, M), Slice(x, M, 2 * M)))
    IN  {<<i, x.data[2 * M + i], RSub(ev.call.d.data[i], Gm.data[i])>> :
            i \in {k \in 1..N :
                      /\ lhs.data[k] = ev.out.beq.data[k]
                      /\ lhs.data[N + k] = ev.out.beq.data[N + k]
                      /\ x.data[2 * M + N + k].n >= 0
                      /\ x.data[2 * M + 2 * N + k].n >= 0}}

\* C11: the program has 2N equality rows over points [m1, m2, alpha, x1, x2]
\* of length 2M + 3N, and every point at which both equality rows of an
\* observation i hold with x1_i >= 0 and x2_i >= 0 has
\* alpha_i >= |d_i - (G (m1 - m2))_i|.
C11_AlphaBoundsResidual ==
    (pc = "point") =>
        LET N == ev.call.G.shape[1]
            M == ev.call.G.shape[2]
        IN  /\ ev.out.Aeq.shape = <<2 * N, 2 * M + 3 * N>>
            /\ ev.out.beq.shape = <<2 * N>>
            /\ \A t \in C11_Satisfied : ~RLt(t[2], RAbs(t[3]))

C11_AlphaBoundsResidual_Witness ==
    /\ pc = "point"
    /\ ev.call.G.shape[2] = 2
    /\ \E t \in C11_Satisfied : t[3] # I(0) /\ t[2] = RAbs(t[3])

\* C12: a step of the L1 gradient solver takes m to m + eta G^T sign(r) / N
\* for r = d - G m, sign being +1, -1 or 0 (0 for a residual that is exactly
\* zero), so that the new m is finite whatever the residuals.
C12_ThreeWaySign ==
    (pc = "stepped") =>
        LET G == ev.call.G
            r == VSub(ev.call.d, Dot(G, ev.m))
            sign == Vec([k \in 1..Len(r.data) |-> I(Sgn(r.data[k].n))])
            step == VScale(RDiv(Num(ev.call.eta), I(G.shape[1])),
                           Dot(Transpose(G), sign))
        IN  /\ ev.out.value = VAdd(ev.m, step)
            /\ \A k \in 1..Len(ev.out.value.data) : IsFinite(ev.out.value.data[k])

====
